---- MODULE Spec2Model ----
(***************************************************************************)
(* Model of the KdG course-catalog export scripts                          *)
(*   scripts/export_smartlions.py  (Smartlions feed)                       *)
(*   scripts/export_jobat.py       (Jobat feed)                            *)
(*                                                                         *)
(* Python strings are modelled as sequences of one-character strings, so   *)
(* that strip(), slicing, replace(), lexicographic comparison and the      *)
(* regular expression of extract_times are computed, not assumed.          *)
(* A raw Airtable field value is None or a string; None is the record      *)
(* [none |-> TRUE], a string s is [none |-> FALSE, s |-> s].               *)
(***************************************************************************)
EXTENDS Integers, Sequences, FiniteSets, TLC

VARIABLES
    partner,              \* which script runs: "smartlions" or "jobat"
    srv_courses,          \* the Courses table on the server, in server order
    srv_sessions,         \* the Sessions table on the server, in server order
    pc,                   \* position of the script
    offset,               \* airtable_fetch_all: continuation token (0 = None)
    records,              \* airtable_fetch_all: records accumulated so far
    requests,             \* page requests issued so far in this run (log)
    course_records,       \* result of the Courses fetch
    session_records,      \* result of the Sessions fetch
    course_id_to_internal,\* Smartlions: record id -> internal_id (dict)
    lad_by_internal,      \* Smartlions: internal_id -> Location/Date Blocks
    sessions_by_internal, \* Smartlions: internal_id -> Session Blocks
    sessions_by_id,       \* Jobat: internal_id -> Location/Date Blocks
    output,               \* the array of Output Records
    file,                 \* the output file: <<>> until written, then <<array>>
    error,                \* "none", "HTTPError" or "TypeError"
    url,                  \* UTM tagging: the input URL
    tagged                \* UTM tagging: <<>> until applied, then <<result>>

vars == <<partner, srv_courses, srv_sessions, pc, offset, records, requests,
          course_records, session_records, course_id_to_internal,
          lad_by_internal, sessions_by_internal, sessions_by_id, output,
          file, error, url, tagged>>

(***************************************************************************)
(* Bounds of the model.                                                    *)
(***************************************************************************)
MaxCourses == 2
MaxSessions == 3
PageSize == 2

(***************************************************************************)
(* Characters and strings.                                                 *)
(***************************************************************************)
\* The characters of the model in ASCII order; Ord is the position.
Chars ==
    <<" ", "#", "&", "+", "-", ".", "/",
      "0", "1", "2", "3", "4", "5", "6", "7", "8", "9",
      ":", ";", "=", "?",
      "A", "B", "C", "D", "E", "F", "G", "H", "I", "J", "K", "L", "M",
      "N", "O", "P", "Q", "R", "S", "T", "U", "V", "W", "X", "Y", "Z",
      "_",
      "a", "b", "c", "d", "e", "f", "g", "h", "i", "j", "k", "l", "m",
      "n", "o", "p", "q", "r", "s", "t", "u", "v", "w", "x", "y", "z">>

CharSet == {Chars[i] : i \in 1..Len(Chars)}

Ord == [c \in CharSet |-> CHOOSE i \in 1..Len(Chars) : Chars[i] = c]

Digits == {"0", "1", "2", "3", "4", "5", "6", "7", "8", "9"}

Upper == {Chars[i] : i \in Ord["A"]..Ord["Z"]}

Letters == Upper \cup {Chars[i] : i \in Ord["a"]..Ord["z"]}

\* \w of Python's re module (for str patterns, ASCII part)
WordChars == Letters \cup Digits \cup {"_"}

DigitVal(c) == Ord[c] - Ord["0"]

\* s[a:b] with 0-based Python slice bounds 0 <= a
Slice(s, a, b) ==
    LET hi == IF b > Len(s) THEN Len(s) ELSE b
    IN IF a >= hi THEN <<>> ELSE SubSeq(s, a + 1, hi)

Prefix(s, n) == Slice(s, 0, n)

\* str.find(c): 0-based index of the first c, or -1
Find(s, c) ==
    IF \E i \in 1..Len(s) : s[i] = c
    THEN (CHOOSE i \in 1..Len(s) : s[i] = c /\ \A j \in 1..(i-1) : s[j] # c) - 1
    ELSE -1

\* str.rfind(c)
RFind(s, c) ==
    IF \E i \in 1..Len(s) : s[i] = c
    THEN (CHOOSE i \in 1..Len(s) : s[i] = c /\ \A j \in (i+1)..Len(s) : s[j] # c) - 1
    ELSE -1

\* str.strip(): drop leading and trailing whitespace
Strip(s) ==
    IF \A i \in 1..Len(s) : s[i] = " " THEN <<>>
    ELSE LET a == CHOOSE i \in 1..Len(s) : s[i] # " " /\ \A j \in 1..(i-1) : s[j] = " "
             b == CHOOSE i \in 1..Len(s) : s[i] # " " /\ \A j \in (i+1)..Len(s) : s[j] = " "
         IN SubSeq(s, a, b)

\* str.lstrip(" ")
LStrip(s) ==
    IF \A i \in 1..Len(s) : s[i] = " " THEN <<>>
    ELSE LET a == CHOOSE i \in 1..Len(s) : s[i] # " " /\ \A j \in 1..(i-1) : s[j] = " "
         IN SubSeq(s, a, Len(s))

\* str.replace(" ", "-")
ReplaceSpace(s) == [i \in 1..Len(s) |-> IF s[i] = " " THEN "-" ELSE s[i]]

\* str.lower() on the letters of the model
LowerChar(c) == IF c \in Upper THEN Chars[Ord[c] - Ord["A"] + Ord["a"]] ELSE c

Lower(s) == [i \in 1..Len(s) |-> LowerChar(s[i])]

\* Python's < on str: lexicographic by code point, a proper prefix first
RECURSIVE StrLess(_, _)
StrLess(a, b) ==
    IF b = <<>> THEN FALSE
    ELSE IF a = <<>> THEN TRUE
    ELSE IF a[1] # b[1] THEN Ord[a[1]] < Ord[b[1]]
    ELSE StrLess(Tail(a), Tail(b))

\* Python's < on tuples of str of equal length
RECURSIVE TupleLess(_, _)
TupleLess(k1, k2) ==
    IF k1 = <<>> THEN FALSE
    ELSE IF k1[1] # k2[1] THEN StrLess(k1[1], k2[1])
    ELSE TupleLess(Tail(k1), Tail(k2))

\* sorted(items, key=...): stable; keys[i] is the key of items[i].
\* perm is built by inserting each index after all indices whose key is <= its own.
RECURSIVE SortPerm(_, _)
SortPerm(keys, n) ==
    IF n = 0 THEN <<>>
    ELSE LET p == SortPerm(keys, n - 1)
             before == {i \in 1..Len(p) : ~TupleLess(keys[n], keys[p[i]])}
             k == IF before = {} THEN 0
                  ELSE CHOOSE i \in before : \A j \in before : j <= i
         IN SubSeq(p, 1, k) \o <<n>> \o SubSeq(p, k + 1, Len(p))

Sorted(items, keys) ==
    LET p == SortPerm(keys, Len(items))
    IN [i \in 1..Len(items) |-> items[p[i]]]

(***************************************************************************)
(* Raw field values and scalar normalizers.                                *)
(***************************************************************************)
None == [none |-> TRUE, s |-> <<>>]

Str(s) == [none |-> FALSE, s |-> s]

\* norm_str(x): "" if x is None else str(x).strip()
norm_str(x) == IF x.none THEN <<>> ELSE Strip(x.s)

\* Decimal digits of a natural number (str(n))
RECURSIVE IntToStr(_)
IntToStr(n) ==
    IF n < 10 THEN <<Chars[Ord["0"] + n]>>
    ELSE IntToStr(n \div 10) \o <<Chars[Ord["0"] + (n % 10)]>>

TwoDigits(n) == IF n < 10 THEN <<"0">> \o IntToStr(n) ELSE IntToStr(n)

IsLeap(y) == y % 4 = 0 /\ (y % 100 # 0 \/ y % 400 = 0)

DaysInMonth(y, m) ==
    IF m = 2 THEN (IF IsLeap(y) THEN 29 ELSE 28)
    ELSE IF m \in {4, 6, 9, 11} THEN 30 ELSE 31

\* The month directive %m of strptime: 1[0-2]|0[1-9]|[1-9]
MonthMatches(t) ==
    \/ Len(t) = 2 /\ t[1] = "1" /\ t[2] \in {"0", "1", "2"}
    \/ Len(t) = 2 /\ t[1] = "0" /\ t[2] \in Digits \ {"0"}
    \/ Len(t) = 1 /\ t[1] \in Digits \ {"0"}

\* The day directive %d of strptime: 3[01]|[12]\d|0[1-9]|[1-9]| [1-9]
DayMatches(t) ==
    \/ Len(t) = 2 /\ t[1] = "3" /\ t[2] \in {"0", "1"}
    \/ Len(t) = 2 /\ t[1] \in {"1", "2"} /\ t[2] \in Digits
    \/ Len(t) = 2 /\ t[1] \in {"0", " "} /\ t[2] \in Digits \ {"0"}
    \/ Len(t) = 1 /\ t[1] \in Digits \ {"0"}

NumVal(t) ==
    IF Len(t) = 1 THEN DigitVal(t[1])
    ELSE IF t[1] = " " THEN DigitVal(t[2])
    ELSE 10 * DigitVal(t[1]) + DigitVal(t[2])

\* The splits (month length, day length) under which t matches %Y-%m-%d entirely
YmdSplits(t) ==
    {sp \in {1, 2} \X {1, 2} :
        /\ Len(t) = 6 + sp[1] + sp[2]
        /\ \A i \in 1..4 : t[i] \in Digits
        /\ t[5] = "-"
        /\ MonthMatches(SubSeq(t, 6, 5 + sp[1]))
        /\ t[6 + sp[1]] = "-"
        /\ DayMatches(SubSeq(t, 7 + sp[1], 6 + sp[1] + sp[2]))}

\* datetime.strptime(t, "%Y-%m-%d"): [ok |-> FALSE] stands for ValueError
strptime(t) ==
    IF YmdSplits(t) = {} THEN [ok |-> FALSE, y |-> 0, m |-> 0, d |-> 0]
    ELSE LET sp == CHOOSE x \in YmdSplits(t) : TRUE
             y == 1000 * DigitVal(t[1]) + 100 * DigitVal(t[2])
                  + 10 * DigitVal(t[3]) + DigitVal(t[4])
             m == NumVal(SubSeq(t, 6, 5 + sp[1]))
             d == NumVal(SubSeq(t, 7 + sp[1], 6 + sp[1] + sp[2]))
         IN [ok |-> y >= 1 /\ d <= DaysInMonth(y, m), y |-> y, m |-> m, d |-> d]

\* dt.strftime("%d/%m/%Y") (the C library does not pad %Y)
strftime(dt) == TwoDigits(dt.d) \o <<"/">> \o TwoDigits(dt.m) \o <<"/">> \o IntToStr(dt.y)

\* ymd_to_dmy(date_str): YYYY-MM-DD to DD/MM/YYYY, the stripped original if unparseable
ymd_to_dmy(date_str) ==
    LET s == Strip(date_str)
        dt == strptime(Prefix(s, 10))
    IN IF s = <<>> THEN <<>>
       ELSE IF dt.ok THEN strftime(dt)
       ELSE s

\* One match of \b([01]\d|2[0-3]):[0-5]\d\b starting at position i (1-based)
TimeMatchAt(s, i) ==
    /\ i + 4 <= Len(s)
    /\ (i = 1 \/ s[i - 1] \notin WordChars)
    /\ \/ s[i] \in {"0", "1"} /\ s[i + 1] \in Digits
       \/ s[i] = "2" /\ s[i + 1] \in {"0", "1", "2", "3"}
    /\ s[i + 2] = ":"
    /\ s[i + 3] \in {"0", "1", "2", "3", "4", "5"}
    /\ s[i + 4] \in Digits
    /\ (i + 4 = Len(s) \/ s[i + 5] \notin WordChars)

\* re.findall(pattern, s): the pattern has one group, so findall returns the
\* text of group 1 (the hour) of each non-overlapping match, left to right
RECURSIVE findall(_, _)
findall(s, i) ==
    IF i + 4 > Len(s) THEN <<>>
    ELSE IF TimeMatchAt(s, i) THEN <<SubSeq(s, i, i + 1)>> \o findall(s, i + 5)
    ELSE findall(s, i + 1)

\* extract_times(hours_str) -> <<startTime, endTime>>
extract_times(hours_str) ==
    LET times == findall(Strip(hours_str), 1)
    IN IF Len(times) >= 2 THEN <<times[1], times[2]>> ELSE <<<<>>, <<>>>>

S_start == <<"s", "t", "a", "r", "t">>
S_end == <<"e", "n", "d">>
S_Startdatum == <<"S", "t", "a", "r", "t", "d", "a", "t", "u", "m">>
S_Einddatum == <<"E", "i", "n", "d", "d", "a", "t", "u", "m">>

\* make_session_id(internal_id, kind, date_str)
make_session_id(internal_id, kind, date_str) ==
    ReplaceSpace(Strip(internal_id) \o <<"-">> \o kind \o <<"-">> \o Prefix(Strip(date_str), 10))

(***************************************************************************)
(* Python dicts: insertion-ordered sequences of entries [k, v].            *)
(***************************************************************************)
DictHas(d, k) == \E i \in 1..Len(d) : d[i].k = k

\* d.get(k, default)
DictGet(d, k, default) ==
    IF DictHas(d, k) THEN d[CHOOSE i \in 1..Len(d) : d[i].k = k].v ELSE default

\* d[k] = v
DictSet(d, k, v) ==
    IF DictHas(d, k)
    THEN [i \in 1..Len(d) |-> IF d[i].k = k THEN [k |-> k, v |-> v] ELSE d[i]]
    ELSE Append(d, [k |-> k, v |-> v])

\* d.setdefault(k, []).append(x)
SetDefaultAppend(d, k, x) == DictSet(d, k, Append(DictGet(d, k, <<>>), x))

(***************************************************************************)
(* The data source.  A Course Record is [id, internal_id]; a Session       *)
(* Record is [id, link, internal_id, date_start, ...] where a field the    *)
(* record does not carry is None (what fields.get(name) returns).  The     *)
(* link field is a list of record ids (list = TRUE, ids) or a scalar       *)
(* (list = FALSE, val; "" stands for an absent or empty value).            *)
(***************************************************************************)
Course(id, internal_id) == [id |-> id, internal_id |-> internal_id]

LinkList(ids) == [list |-> TRUE, ids |-> ids, val |-> ""]

LinkScalar(val) == [list |-> FALSE, ids |-> <<>>, val |-> val]

NoFields ==
    [link |-> LinkList(<<>>), internal_id |-> None,
     date_start |-> None, date_end |-> None, hours |-> None,
     location_name |-> None, location_address |-> None, location_zip |-> None,
     location_city |-> None, maximum_participants |-> None,
     registration_deadline |-> None]

\* A Session Record with the given fields set and every other field absent
Session(id, fields) ==
    [n \in {"id"} \cup DOMAIN NoFields |->
        IF n = "id" THEN id
        ELSE IF n \in DOMAIN fields THEN fields[n] ELSE NoFields[n]]

S_C1 == <<"C", "1">>
S_C2 == <<"C", "2">>
S_C1sp == <<" ", "C", "1">>
S_blank == <<" ">>
S_d0301 == <<"2", "0", "2", "4", "-", "0", "3", "-", "0", "1">>
S_d0302 == <<"2", "0", "2", "4", "-", "0", "3", "-", "0", "2">>
S_d0301sp == <<"2", "0", "2", "4", " ", "0", "3", " ", "0", "1">>
S_d0215 == <<"2", "0", "2", "4", "-", "0", "2", "-", "1", "5">>
S_hours == <<"0", "9", ":", "0", "0", "-", "1", "7", ":", "0", "0">>
S_B == <<"B">>
S_X == <<"X">>

CourseChoices ==
    { Course("recA", Str(S_C2)),
      Course("recB", Str(S_C1sp)),
      Course("recC", None),
      Course("recD", Str(S_blank)) }

SessionChoices ==
    { Session("recS1", [link |-> LinkList(<<"recB">>), internal_id |-> Str(S_C1),
                        date_start |-> Str(S_d0301), hours |-> Str(S_hours)]),
      Session("recS2", [link |-> LinkList(<<"recA", "recB">>), internal_id |-> Str(S_C2),
                        location_name |-> Str(S_blank)]),
      Session("recS3", [link |-> LinkList(<<"recA", "recB">>), internal_id |-> Str(S_C1sp),
                        date_start |-> Str(S_d0301), date_end |-> Str(S_d0302),
                        hours |-> Str(S_hours), location_city |-> Str(S_X)]),
      Session("recS4", [link |-> LinkScalar("recB"), internal_id |-> Str(S_C1),
                        date_start |-> Str(S_d0301sp)]),
      Session("recS5", [link |-> LinkList(<<"recX", "recA">>), internal_id |-> Str(S_C2),
                        date_start |-> Str(S_d0215), location_name |-> Str(S_B)]),
      Session("recS6", [link |-> LinkList(<<"recC", "recX">>), internal_id |-> Str(S_blank),
                        date_start |-> Str(S_d0301)]) }

\* Sequences of at most n distinct elements of S (record ids are unique in a table)
InjSeqs(S, n) ==
    {s \in UNION {[1..k -> S] : k \in 0..n} :
        \A i, j \in 1..Len(s) : i # j => s[i] # s[j]}

(***************************************************************************)
(* airtable_fetch_all: one request per step.                               *)
(***************************************************************************)
Min(a, b) == IF a < b THEN a ELSE b

\* The server's answer to a request carrying token off (0 = no token): the
\* page of records and the token of the next page (0 = none)
PageRecords(table, off) == SubSeq(table, off * PageSize + 1, Min((off + 1) * PageSize, Len(table)))

NextOffset(table, off) == IF (off + 1) * PageSize < Len(table) THEN off + 1 ELSE 0

FetchStates == {"sl_fetch_courses", "sl_fetch_sessions", "jb_fetch_sessions", "jb_fetch_courses"}

Table == IF pc \in {"sl_fetch_courses", "jb_fetch_courses"} THEN srv_courses ELSE srv_sessions

TableName == IF pc \in {"sl_fetch_courses", "jb_fetch_courses"} THEN "courses" ELSE "sessions"

\* where the script continues once the fetch at pc has returned
AfterFetch ==
    CASE pc = "sl_fetch_courses" -> "sl_lookup"
      [] pc = "sl_fetch_sessions" -> "sl_join"
      [] pc = "jb_fetch_sessions" -> "jb_group"
      [] pc = "jb_fetch_courses" -> "done"

\* FetchPage with the page assigned to records instead of appended to it
FetchPageNoExtend ==
    /\ pc \in FetchStates
    /\ LET got == PageRecords(Table, offset)
           nxt == NextOffset(Table, offset)
       IN /\ requests' = Append(requests, [table |-> TableName, offset |-> offset])
          /\ IF nxt # 0
             THEN /\ records' = got
                  /\ offset' = nxt
                  /\ UNCHANGED <<pc, course_records, session_records>>
             ELSE /\ records' = <<>>
                  /\ offset' = 0
                  /\ pc' = AfterFetch
                  /\ course_records' = IF TableName = "courses" THEN got ELSE course_records
                  /\ session_records' = IF TableName = "sessions" THEN got ELSE session_records
    /\ UNCHANGED <<partner, srv_courses, srv_sessions, course_id_to_internal,
                   lad_by_internal, sessions_by_internal, sessions_by_id, output,
                   file, error, url, tagged>>

\* One iteration of the while loop with r.ok: extend records, take the token,
\* and return the records when the response carries no token
FetchPage ==
    /\ pc \in FetchStates
    /\ LET got == records \o PageRecords(Table, offset)
           nxt == NextOffset(Table, offset)
       IN /\ requests' = Append(requests, [table |-> TableName, offset |-> offset])
          /\ IF nxt # 0
             THEN /\ records' = got
                  /\ offset' = nxt
                  /\ UNCHANGED <<pc, course_records, session_records>>
             ELSE /\ records' = <<>>
                  /\ offset' = 0
                  /\ pc' = AfterFetch
                  /\ course_records' = IF TableName = "courses" THEN got ELSE course_records
                  /\ session_records' = IF TableName = "sessions" THEN got ELSE session_records
    /\ UNCHANGED <<partner, srv_courses, srv_sessions, course_id_to_internal,
                   lad_by_internal, sessions_by_internal, sessions_by_id, output,
                   file, error, url, tagged>>

\* FetchFail with the failed response taken for an empty last page
FetchFailIgnored ==
    /\ pc \in FetchStates
    /\ requests' = Append(requests, [table |-> TableName, offset |-> offset])
    /\ pc' = AfterFetch
    /\ error' = "HTTPError"
    /\ records' = <<>>
    /\ offset' = 0
    /\ course_records' = IF TableName = "courses" THEN records ELSE course_records
    /\ session_records' = IF TableName = "sessions" THEN records ELSE session_records
    /\ UNCHANGED <<partner, srv_courses, srv_sessions, course_id_to_internal,
                   lad_by_internal, sessions_by_internal, sessions_by_id, output,
                   file, url, tagged>>

\* One iteration of the while loop with not r.ok: raise_for_status() propagates
FetchFail ==
    /\ pc \in FetchStates
    /\ requests' = Append(requests, [table |-> TableName, offset |-> offset])
    /\ pc' = "aborted"
    /\ error' = "HTTPError"
    /\ UNCHANGED <<partner, srv_courses, srv_sessions, offset, records, course_records,
                   session_records, course_id_to_internal, lad_by_internal,
                   sessions_by_internal, sessions_by_id, output, file, url, tagged>>

(***************************************************************************)
(* export_smartlions.py: blocks and the explicit-link join.                *)
(* Every block carries src, the id of the Session Record it was built      *)
(* from (the identity of the dict object in the script); src is not a      *)
(* field of the output.                                                    *)
(***************************************************************************)
LadFields ==
    {"date_start", "date_end", "hours", "location_name", "location_address",
     "location_zip", "location_city"}

\* build_location_and_date_block(sf)
build_location_and_date_block(sf) ==
    [date_start |-> norm_str(sf.date_start),
     date_end |-> norm_str(sf.date_end),
     hours |-> norm_str(sf.hours),
     location_name |-> norm_str(sf.location_name),
     location_address |-> norm_str(sf.location_address),
     location_zip |-> norm_str(sf.location_zip),
     location_city |-> norm_str(sf.location_city),
     src |-> sf.id]

\* one entry of the sessions array
SessionBlock(internal_id, sf, kind, description, date) ==
    LET times == extract_times(norm_str(sf.hours))
    IN [date |-> ymd_to_dmy(date),
        sessionDescription |-> description,
        sessionId |-> make_session_id(internal_id, kind, date),
        locationName |-> norm_str(sf.location_name),
        address |-> norm_str(sf.location_address),
        zipCode |-> norm_str(sf.location_zip),
        city |-> norm_str(sf.location_city),
        startTime |-> times[1],
        endTime |-> times[2],
        src |-> sf.id]

\* build_smartlions_sessions_from_session_record(internal_id, sf)
build_smartlions_sessions_from_session_record(internal_id, sf) ==
    LET start_date == norm_str(sf.date_start)
        end_date == norm_str(sf.date_end)
    IN (IF start_date # <<>>
        THEN <<SessionBlock(internal_id, sf, S_start, S_Startdatum, start_date)>>
        ELSE <<>>)
       \o
       (IF end_date # <<>>
        THEN <<SessionBlock(internal_id, sf, S_end, S_Einddatum, end_date)>>
        ELSE <<>>)

\* course_id_to_internal: record id -> internal_id, courses with an empty
\* internal_id left out
RECURSIVE BuildLookup(_, _)
BuildLookup(crs, d) ==
    IF crs = <<>> THEN d
    ELSE LET iid == norm_str(Head(crs).internal_id)
         IN BuildLookup(Tail(crs), IF iid # <<>> THEN DictSet(d, Head(crs).id, iid) ELSE d)

\* linked = sf.get(LINK, []), a scalar wrapped in a list, an empty scalar dropped
Linked(sf) ==
    IF sf.link.list THEN sf.link.ids
    ELSE IF sf.link.val # "" THEN <<sf.link.val>> ELSE <<>>

\* AnyFieldSet without the test
AnyFieldSetAlways(lad_block) == TRUE

\* any(v for v in lad_block.values())
AnyFieldSet(lad_block) == \E f \in LadFields : lad_block[f] # <<>>

AppendAll(d, k, xs) ==
    LET RECURSIVE go(_, _)
        go(dd, rest) == IF rest = <<>> THEN dd
                        ELSE go(SetDefaultAppend(dd, k, Head(rest)), Tail(rest))
    IN go(d, xs)

\* the body of "for course_rec_id in linked" for one linked id;
\* acc = [lad |-> lad_by_internal, sess |-> sessions_by_internal]
JoinLinked(acc, lookup, sf, course_rec_id) ==
    LET iid == DictGet(lookup, course_rec_id, <<>>)
        lad_block == build_location_and_date_block(sf)
    IN IF iid = <<>> THEN acc
       ELSE [lad |-> IF AnyFieldSet(lad_block)
                     THEN SetDefaultAppend(acc.lad, iid, lad_block)
                     ELSE acc.lad,
             sess |-> AppendAll(acc.sess, iid,
                                build_smartlions_sessions_from_session_record(iid, sf))]

\* JoinSession with the loop left after the first linked id
JoinSessionFirstOnly(acc, lookup, sf, linked) ==
    IF linked = <<>> THEN acc ELSE JoinLinked(acc, lookup, sf, Head(linked))

RECURSIVE JoinSession(_, _, _, _)
JoinSession(acc, lookup, sf, linked) ==
    IF linked = <<>> THEN acc
    ELSE JoinSession(JoinLinked(acc, lookup, sf, Head(linked)), lookup, sf, Tail(linked))

\* the loop "for sr in session_records"
RECURSIVE JoinAll(_, _, _)
JoinAll(acc, lookup, srs) ==
    IF srs = <<>> THEN acc
    ELSE JoinAll(JoinSession(acc, lookup, Head(srs), Linked(Head(srs))), lookup, Tail(srs))

\* lad_sort(b)
lad_sort(b) == <<b.date_start, b.location_name, b.hours>>

\* the key of the sessions sort
session_sort(s) == <<s.date, s.sessionDescription>>

SortedBlocks(blocks) == Sorted(blocks, [i \in 1..Len(blocks) |-> lad_sort(blocks[i])])

SortedSessions(ss) == Sorted(ss, [i \in 1..Len(ss) |-> session_sort(ss[i])])

\* the seen/unique loop over an already sorted list
RECURSIVE Dedupe(_, _, _)
Dedupe(ss, seen, unique) ==
    IF ss = <<>> THEN unique
    ELSE LET sid == Head(ss).sessionId
         IN IF sid # <<>> /\ sid \in seen
            THEN Dedupe(Tail(ss), seen, unique)
            ELSE Dedupe(Tail(ss), IF sid # <<>> THEN seen \cup {sid} ELSE seen,
                        Append(unique, Head(ss)))

\* UniqueSessions with the duplicates dropped in fetch order, before the sort
UniqueSessionsBeforeSort(ss) == SortedSessions(Dedupe(ss, {}, <<>>))

UniqueSessions(ss) == Dedupe(SortedSessions(ss), {}, <<>>)

\* one Output Record (the fields the join and the ordering decide), rec = the
\* id of the Course Record it was assembled from
SmartlionsObj(cr, lad, sess) ==
    LET internal_id == norm_str(cr.internal_id)
    IN [internal_id |-> internal_id,
        location_and_date |-> DictGet(lad, internal_id, <<>>),
        sessions |-> DictGet(sess, internal_id, <<>>),
        rec |-> cr.id]

\* SortedOutput without the sort
SortedOutputUnsorted(out) == out

\* sorted(output, key=lambda x: x.get("internal_id", ""))
SortedOutput(out) == Sorted(out, [i \in 1..Len(out) |-> <<out[i].internal_id>>])

SLBuildLookup ==
    /\ pc = "sl_lookup"
    /\ course_id_to_internal' = BuildLookup(course_records, <<>>)
    /\ pc' = "sl_fetch_sessions"
    /\ UNCHANGED <<partner, srv_courses, srv_sessions, offset, records, requests,
                   course_records, session_records, lad_by_internal,
                   sessions_by_internal, sessions_by_id, output, file, error,
                   url, tagged>>

SLJoin ==
    /\ pc = "sl_join"
    /\ LET acc == JoinAll([lad |-> <<>>, sess |-> <<>>], course_id_to_internal,
                          session_records)
       IN /\ lad_by_internal' = acc.lad
          /\ sessions_by_internal' = acc.sess
    /\ pc' = "sl_sort"
    /\ UNCHANGED <<partner, srv_courses, srv_sessions, offset, records, requests,
                   course_records, session_records, course_id_to_internal,
                   sessions_by_id, output, file, error, url, tagged>>

SLSort ==
    /\ pc = "sl_sort"
    /\ lad_by_internal' =
          [i \in 1..Len(lad_by_internal) |->
              [k |-> lad_by_internal[i].k, v |-> SortedBlocks(lad_by_internal[i].v)]]
    /\ sessions_by_internal' =
          [i \in 1..Len(sessions_by_internal) |->
              [k |-> sessions_by_internal[i].k,
               v |-> UniqueSessions(sessions_by_internal[i].v)]]
    /\ pc' = "sl_assemble"
    /\ UNCHANGED <<partner, srv_courses, srv_sessions, offset, records, requests,
                   course_records, session_records, course_id_to_internal,
                   sessions_by_id, output, file, error, url, tagged>>

SLAssemble ==
    /\ pc = "sl_assemble"
    /\ output' = SortedOutput([i \in 1..Len(course_records) |->
                      SmartlionsObj(course_records[i], lad_by_internal,
                                    sessions_by_internal)])
    /\ pc' = "sl_write"
    /\ UNCHANGED <<partner, srv_courses, srv_sessions, offset, records, requests,
                   course_records, session_records, course_id_to_internal,
                   lad_by_internal, sessions_by_internal, sessions_by_id, file,
                   error, url, tagged>>

\* open("data/smartlions.json", "w") and json.dump(output, fp)
SLWrite ==
    /\ pc = "sl_write"
    /\ file' = <<output>>
    /\ pc' = "done"
    /\ UNCHANGED <<partner, srv_courses, srv_sessions, offset, records, requests,
                   course_records, session_records, course_id_to_internal,
                   lad_by_internal, sessions_by_internal, sessions_by_id, output,
                   error, url, tagged>>

(***************************************************************************)
(* export_jobat.py, as written: the statements after the first line of     *)
(* main() are at module level, so importing the script fetches and groups  *)
(* the sessions, then enters "for iid in sessions_by_id", whose body sorts *)
(* one list and calls airtable_fetch_all() without its argument.           *)
(***************************************************************************)
\* build_location_block(sf): the optional fields only when non-empty
build_location_block(sf) ==
    LET city == norm_str(sf.location_city)
        maxp == norm_str(sf.maximum_participants)
        reg == norm_str(sf.registration_deadline)
    IN [date_start |-> norm_str(sf.date_start),
        date_end |-> norm_str(sf.date_end),
        hours |-> norm_str(sf.hours),
        location_name |-> norm_str(sf.location_name),
        location_address |-> norm_str(sf.location_address),
        location_zip |-> norm_str(sf.location_zip),
        src |-> sf.id]
       @@ (IF city # <<>> THEN [location_city |-> city] ELSE <<>>)
       @@ (IF maxp # <<>> THEN [maximum_participants |-> maxp] ELSE <<>>)
       @@ (IF reg # <<>> THEN [registration_deadline |-> reg] ELSE <<>>)

\* the loop "for sr in session_records" of the implicit-key join
RECURSIVE GroupById(_, _)
GroupById(d, srs) ==
    IF srs = <<>> THEN d
    ELSE LET iid == norm_str(Head(srs).internal_id)
         IN GroupById(IF iid = <<>> THEN d
                      ELSE SetDefaultAppend(d, iid, build_location_block(Head(srs))),
                      Tail(srs))

\* sort_key(b)
sort_key(b) == <<b.date_start, b.location_name, b.hours>>

JobatSorted(blocks) == Sorted(blocks, [i \in 1..Len(blocks) |-> sort_key(blocks[i])])

JBGroup ==
    /\ pc = "jb_group"
    /\ sessions_by_id' = GroupById(<<>>, session_records)
    /\ pc' = "jb_sort"
    /\ UNCHANGED <<partner, srv_courses, srv_sessions, offset, records, requests,
                   course_records, session_records, course_id_to_internal,
                   lad_by_internal, sessions_by_internal, output, file, error,
                   url, tagged>>

\* first iteration of "for iid in sessions_by_id": the first key's list is
\* sorted, then airtable_fetch_all() raises TypeError (api_url is missing)
JBSortLoop ==
    /\ pc = "jb_sort"
    /\ sessions_by_id # <<>>
    /\ sessions_by_id' = [sessions_by_id EXCEPT ![1].v = JobatSorted(@)]
    /\ pc' = "aborted"
    /\ error' = "TypeError"
    /\ UNCHANGED <<partner, srv_courses, srv_sessions, offset, records, requests,
                   course_records, session_records, course_id_to_internal,
                   lad_by_internal, sessions_by_internal, output, file, url, tagged>>

\* no sessions grouped: the loop body never runs and the script calls main(),
\* which is the single statement course_records = airtable_fetch_all(API_URL)
JBMain ==
    /\ pc = "jb_sort"
    /\ sessions_by_id = <<>>
    /\ pc' = "jb_fetch_courses"
    /\ UNCHANGED <<partner, srv_courses, srv_sessions, offset, records, requests,
                   course_records, session_records, course_id_to_internal,
                   lad_by_internal, sessions_by_internal, sessions_by_id, output,
                   file, error, url, tagged>>

(***************************************************************************)
(* The runs.                                                               *)
(***************************************************************************)
Init ==
    /\ partner \in {"smartlions", "jobat"}
    /\ srv_courses \in InjSeqs(CourseChoices, MaxCourses)
    /\ srv_sessions \in InjSeqs(SessionChoices, MaxSessions)
    /\ pc = IF partner = "smartlions" THEN "sl_fetch_courses" ELSE "jb_fetch_sessions"
    /\ offset = 0
    /\ records = <<>>
    /\ requests = <<>>
    /\ course_records = <<>>
    /\ session_records = <<>>
    /\ course_id_to_internal = <<>>
    /\ lad_by_internal = <<>>
    /\ sessions_by_internal = <<>>
    /\ sessions_by_id = <<>>
    /\ output = <<>>
    /\ file = <<>>
    /\ error = "none"
    /\ url = <<>>
    /\ tagged = <<>>

Next ==
    \/ FetchPage
    \/ FetchFail
    \/ SLBuildLookup
    \/ SLJoin
    \/ SLSort
    \/ SLAssemble
    \/ SLWrite
    \/ JBGroup
    \/ JBSortLoop
    \/ JBMain

Spec == Init /\ [][Next]_vars

\* The script is one sequential process: while it is inside the loop of
\* airtable_fetch_all, requests.get (timeout=60) returns a response, so a
\* pending iteration is eventually carried out.
SpecFair == Spec /\ WF_vars(FetchPage)

(***************************************************************************)
(* UTM tagging.  urlparse and urlunparse are those of urllib.parse         *)
(* (CPython 3.11), over the characters of the model.                       *)
(***************************************************************************)
\* UTM_QUERY of export_smartlions.py and of export_jobat.py
UTM_QUERY_SMARTLIONS == <<"u", "t", "m", "_", "s", "o", "u", "r", "c", "e", "=", "s", "m", "a", "r", "t", "l", "i", "o", "n", "s", "&", "u", "t", "m", "_", "m", "e", "d", "i", "u", "m", "=", "a", "f", "f", "i", "l", "i", "a", "t", "e">>

UTM_QUERY_JOBAT == <<"u", "t", "m", "_", "s", "o", "u", "r", "c", "e", "=", "j", "o", "b", "a", "t", "&", "u", "t", "m", "_", "m", "e", "d", "i", "u", "m", "=", "a", "f", "f", "i", "l", "i", "a", "t", "e">>

\* urllib.parse.uses_netloc and uses_params (both hold the empty scheme)
uses_netloc ==
    {<<>>,
     <<"f", "t", "p">>,
     <<"h", "t", "t", "p">>,
     <<"g", "o", "p", "h", "e", "r">>,
     <<"n", "n", "t", "p">>,
     <<"t", "e", "l", "n", "e", "t">>,
     <<"i", "m", "a", "p">>,
     <<"w", "a", "i", "s">>,
     <<"f", "i", "l", "e">>,
     <<"m", "m", "s">>,
     <<"h", "t", "t", "p", "s">>,
     <<"s", "h", "t", "t", "p">>,
     <<"s", "n", "e", "w", "s">>,
     <<"p", "r", "o", "s", "p", "e", "r", "o">>,
     <<"r", "t", "s", "p">>,
     <<"r", "t", "s", "p", "s">>,
     <<"r", "t", "s", "p", "u">>,
     <<"r", "s", "y", "n", "c">>,
     <<"s", "v", "n">>,
     <<"s", "v", "n", "+", "s", "s", "h">>,
     <<"s", "f", "t", "p">>,
     <<"n", "f", "s">>,
     <<"g", "i", "t">>,
     <<"g", "i", "t", "+", "s", "s", "h">>,
     <<"w", "s">>,
     <<"w", "s", "s">>}

uses_params ==
    {<<>>,
     <<"f", "t", "p">>,
     <<"h", "d", "l">>,
     <<"p", "r", "o", "s", "p", "e", "r", "o">>,
     <<"h", "t", "t", "p">>,
     <<"i", "m", "a", "p">>,
     <<"h", "t", "t", "p", "s">>,
     <<"s", "h", "t", "t", "p">>,
     <<"r", "t", "s", "p">>,
     <<"r", "t", "s", "p", "s">>,
     <<"r", "t", "s", "p", "u">>,
     <<"s", "i", "p">>,
     <<"s", "i", "p", "s">>,
     <<"m", "m", "s">>,
     <<"s", "f", "t", "p">>,
     <<"t", "e", "l">>}

scheme_chars == Letters \cup Digits \cup {"+", "-", "."}

\* s.split(c, 1) for a c that occurs in s
SplitAt(s, c) == <<Slice(s, 0, Find(s, c)), Slice(s, Find(s, c) + 1, Len(s))>>

\* urlsplit, step 1: <<scheme, rest>>; the scheme is split off when the text
\* before the first ":" starts with a letter and consists of scheme_chars
SplitScheme(u) ==
    LET i == Find(u, ":")
    IN IF i > 0 /\ u[1] \in Letters /\ \A j \in 1..i : u[j] \in scheme_chars
       THEN <<Lower(Slice(u, 0, i)), Slice(u, i + 1, Len(u))>>
       ELSE <<<<>>, u>>

\* urlsplit, step 2: <<netloc, rest>>; _splitnetloc(url, 2) cuts at the first
\* of "/", "?", "#" from index 2 on
SplitNetloc(u) ==
    LET stops == {j \in 3..Len(u) : u[j] \in {"/", "?", "#"}}
        delim == IF stops = {} THEN Len(u)
                 ELSE (CHOOSE j \in stops : \A k \in stops : j <= k) - 1
    IN IF Prefix(u, 2) = <<"/", "/">>
       THEN <<Slice(u, 2, delim), Slice(u, delim, Len(u))>>
       ELSE <<<<>>, u>>

\* urlsplit, steps 3 and 4: <<rest, part>> split at the first c, if any
SplitOff(u, c) == IF Find(u, c) >= 0 THEN SplitAt(u, c) ELSE <<u, <<>>>>

\* urlsplit(url) -> [scheme, netloc, path, query, fragment]
urlsplit(url0) ==
    LET s == SplitScheme(LStrip(url0))
        n == SplitNetloc(s[2])
        f == SplitOff(n[2], "#")
        q == SplitOff(f[1], "?")
    IN [scheme |-> s[1], netloc |-> n[1], path |-> q[1], query |-> q[2],
        fragment |-> f[2]]

\* _splitparams(url) -> <<url, params>>
splitparams(u) ==
    LET afterSlash == {j \in (RFind(u, "/") + 1)..Len(u) : u[j] = ";"}
        i == IF Find(u, "/") >= 0
             THEN (IF afterSlash = {} THEN -1
                   ELSE (CHOOSE j \in afterSlash : \A k \in afterSlash : j <= k) - 1)
             ELSE Find(u, ";")
    IN IF i < 0 THEN <<u, <<>>>>
       ELSE <<Slice(u, 0, i), Slice(u, i + 1, Len(u))>>

\* urlparse(url) -> [scheme, netloc, path, params, query, fragment]
urlparse(u) ==
    LET sp == urlsplit(u)
        split == sp.scheme \in uses_params /\ Find(sp.path, ";") >= 0
    IN [scheme |-> sp.scheme, netloc |-> sp.netloc,
        path |-> IF split THEN splitparams(sp.path)[1] ELSE sp.path,
        params |-> IF split THEN splitparams(sp.path)[2] ELSE <<>>,
        query |-> sp.query, fragment |-> sp.fragment]

\* urlunsplit, first statement: the "//" netloc prefix
WithNetloc(scheme, netloc, path) ==
    IF netloc # <<>>
       \/ (scheme # <<>> /\ scheme \in uses_netloc /\ Prefix(path, 2) # <<"/", "/">>)
    THEN <<"/", "/">> \o netloc
         \o (IF path # <<>> /\ Prefix(path, 1) # <<"/">> THEN <<"/">> ELSE <<>>)
         \o path
    ELSE path

\* urlunsplit((scheme, netloc, url, query, fragment))
urlunsplit(scheme, netloc, path, query, fragment) ==
    (IF scheme # <<>> THEN scheme \o <<":">> ELSE <<>>)
    \o WithNetloc(scheme, netloc, path)
    \o (IF query # <<>> THEN <<"?">> \o query ELSE <<>>)
    \o (IF fragment # <<>> THEN <<"#">> \o fragment ELSE <<>>)

\* urlunparse((scheme, netloc, url, params, query, fragment))
urlunparse(scheme, netloc, path, params, query, fragment) ==
    urlunsplit(scheme, netloc,
               IF params # <<>> THEN path \o <<";">> \o params ELSE path,
               query, fragment)

\* export_smartlions.py add_utm(url)
add_utm(u0) ==
    LET u == Strip(u0)
        parts == urlparse(u)
    IN IF u = <<>> \/ UTM_QUERY_SMARTLIONS = <<>> THEN u
       ELSE IF parts.query # <<>> THEN u
       ELSE urlunparse(parts.scheme, parts.netloc, parts.path, parts.params,
                       UTM_QUERY_SMARTLIONS, parts.fragment)

\* export_jobat.py add_jobat_utm(url)
add_jobat_utm(u) ==
    LET parts == urlparse(u)
    IN IF u = <<>> THEN <<>>
       ELSE IF parts.query # <<>> THEN u
       ELSE urlunparse(parts.scheme, parts.netloc, parts.path, parts.params,
                       UTM_QUERY_JOBAT, parts.fragment)

\* URLs and relative references put together from their parts
UrlSchemes == {<<>>, <<"h", "t", "t", "p", ":">>, <<"x", ":">>}

UrlAuthorities == {<<>>, <<"/", "/", "a">>, <<"/", "/">>}

UrlPaths == {<<>>, <<"/", "p">>, <<"p">>, <<"/", "/", "p">>, <<"/", "p", ";", "q">>}

UrlQueries == {<<>>, <<"?">>, <<"?", "k", "=", "v">>}

UrlFragments == {<<>>, <<"#", "f">>, <<"#", "f", "?", "k">>}

UrlInputs ==
    {s \o a \o p \o q \o f :
        s \in UrlSchemes, a \in UrlAuthorities, p \in UrlPaths,
        q \in UrlQueries, f \in UrlFragments}

InitUtm ==
    /\ partner \in {"smartlions", "jobat"}
    /\ url \in UrlInputs
    /\ tagged = <<>>
    /\ pc = "utm"
    /\ srv_courses = <<>>
    /\ srv_sessions = <<>>
    /\ offset = 0
    /\ records = <<>>
    /\ requests = <<>>
    /\ course_records = <<>>
    /\ session_records = <<>>
    /\ course_id_to_internal = <<>>
    /\ lad_by_internal = <<>>
    /\ sessions_by_internal = <<>>
    /\ sessions_by_id = <<>>
    /\ output = <<>>
    /\ file = <<>>
    /\ error = "none"

\* "webaddress": add_utm(...) / add_jobat_utm(...)
ApplyUtm ==
    /\ pc = "utm"
    /\ tagged' = <<IF partner = "smartlions" THEN add_utm(url) ELSE add_jobat_utm(url)>>
    /\ pc' = "utm_done"
    /\ UNCHANGED <<partner, srv_courses, srv_sessions, offset, records, requests,
                   course_records, session_records, course_id_to_internal,
                   lad_by_internal, sessions_by_internal, sessions_by_id, output,
                   file, error, url>>

NextUtm == ApplyUtm

SpecUtm == InitUtm /\ [][NextUtm]_vars

(***************************************************************************)
(* Vocabulary of the properties.                                           *)
(***************************************************************************)
\* the Smartlions run has written its file
Written == partner = "smartlions" /\ file # <<>>

\* the Output Record assembled from the Course Record with record id id
ObjOf(out, id) == out[CHOOSE i \in 1..Len(out) : out[i].rec = id]

Fetched(id) == \E i \in 1..Len(course_records) : course_records[i].id = id

\* the normalised internal_id of the fetched Course Record id ("" if not fetched)
InternalIdOf(id) ==
    IF Fetched(id)
    THEN norm_str(course_records[CHOOSE i \in 1..Len(course_records) :
                                     course_records[i].id = id].internal_id)
    ELSE <<>>

\* the record ids the link field of sr names
LinkedIds(sr) == {Linked(sr)[i] : i \in 1..Len(Linked(sr))}

\* the linked ids that are fetched Course Records with a non-empty internal_id
Resolvable(sr) == {id \in LinkedIds(sr) : InternalIdOf(id) # <<>>}

\* sr has a non-empty Location/Date field
HasLadField(sr) == \E f \in LadFields : norm_str(sr[f]) # <<>>

\* sr appears in the list (some block of it was built from sr)
AppearsIn(sr, blocks) == \E i \in 1..Len(blocks) : blocks[i].src = sr.id

SessionRecordSet == {session_records[i] : i \in 1..Len(session_records)}

\* keys of a list are in ascending order
Ascending(keys) == \A a, b \in 1..Len(keys) : a < b => ~TupleLess(keys[b], keys[a])

RECURSIVE DerivedFrom(_, _, _)
DerivedFrom(iid, sr, ids) ==
    IF ids = <<>> THEN <<>>
    ELSE (IF iid # <<>> /\ InternalIdOf(Head(ids)) = iid
          THEN build_smartlions_sessions_from_session_record(iid, sr)
          ELSE <<>>)
         \o DerivedFrom(iid, sr, Tail(ids))

RECURSIVE DerivedBlocks(_, _)
DerivedBlocks(iid, srs) ==
    IF srs = <<>> THEN <<>>
    ELSE DerivedFrom(iid, Head(srs), Linked(Head(srs))) \o DerivedBlocks(iid, Tail(srs))

\* block i of pre comes before block j of pre in the sorted order
SortsBefore(pre, i, j) ==
    \/ TupleLess(session_sort(pre[i]), session_sort(pre[j]))
    \/ session_sort(pre[i]) = session_sort(pre[j]) /\ i < j

\* final is what the claim says of the derived list pre
IsSortedDeduped(pre, final) ==
    \E pos \in [1..Len(final) -> 1..Len(pre)] :
       /\ \A a \in 1..Len(final) : final[a] = pre[pos[a]]
       /\ \A a, b \in 1..Len(final) : a < b => SortsBefore(pre, pos[a], pos[b])
       /\ \A a, b \in 1..Len(final) : a # b => final[a].sessionId # final[b].sessionId
       /\ \A j \in 1..Len(pre) :
             \E a \in 1..Len(final) :
                /\ final[a].sessionId = pre[j].sessionId
                /\ pos[a] = j \/ SortsBefore(pre, pos[a], j)

C2_SessionsSortedDeduped ==
    Written =>
        \A i \in 1..Len(file[1]) :
           IsSortedDeduped(DerivedBlocks(file[1][i].internal_id, session_records),
                           file[1][i].sessions)

\* a written run in which a course has two derived blocks with one sessionId
\* and the one fetched later sorts first
C2_Witness ==
    /\ Written
    /\ \E i \in 1..Len(file[1]) :
          LET pre == DerivedBlocks(file[1][i].internal_id, session_records)
          IN \E a, b \in 1..Len(pre) :
                /\ a < b
                /\ pre[a].sessionId = pre[b].sessionId
                /\ SortsBefore(pre, b, a)
                /\ Len(file[1][i].sessions) < Len(pre)

(***************************************************************************)
(* C3 (as claimed).  After the join, in both pipelines, every parent's     *)
(* location_and_date list is in ascending order of (date_start,            *)
(* location_name, hours), the empty string first, and blocks with equal    *)
(* keys keep the order in which their Session Records were fetched.        *)
(***************************************************************************)
\* position of the Session Record a block was built from, in fetch order
FetchPos(b) == CHOOSE i \in 1..Len(session_records) : session_records[i].id = b.src

LadKey(b) == <<b.date_start, b.location_name, b.hours>>

SortedStable(blocks) ==
    \A a, b \in 1..Len(blocks) :
       a < b =>
          /\ ~TupleLess(LadKey(blocks[b]), LadKey(blocks[a]))
          /\ LadKey(blocks[a]) = LadKey(blocks[b]) => FetchPos(blocks[a]) < FetchPos(blocks[b])

\* the Smartlions script is past its sort
SmartlionsJoined == partner = "smartlions" /\ pc \in {"sl_assemble", "sl_write", "done"}

\* the Jobat script is past its "for iid in sessions_by_id" statement
JobatJoined == partner = "jobat" /\ (error = "TypeError" \/ pc \in {"jb_fetch_courses", "done"})

C3_SmartlionsSorted ==
    SmartlionsJoined =>
        \A i \in 1..Len(lad_by_internal) : SortedStable(lad_by_internal[i].v)

C3_Claim ==
    /\ C3_SmartlionsSorted
    /\ JobatJoined => \A i \in 1..Len(sessions_by_id) : SortedStable(sessions_by_id[i].v)

(***************************************************************************)
(* C4 (as claimed).  In both pipelines a run whose page requests all       *)
(* succeed serializes the array of Output Records, and the serialized      *)
(* array is in ascending order of internal_id.                             *)
(***************************************************************************)
\* the script has ended and no page request failed
RunEnded == pc = "done" \/ (pc = "aborted" /\ error # "HTTPError")

SortedById(out) == Ascending([i \in 1..Len(out) |-> <<out[i].internal_id>>])

C4_SmartlionsSorted == Written => SortedById(file[1])

C4_Claim == RunEnded => file # <<>> /\ SortedById(file[1])

(***************************************************************************)
(* C5 (as claimed).  In the join of both pipelines no location_and_date    *)
(* list contains a block whose fields are all empty strings.               *)
(***************************************************************************)
AllEmpty(b) == \A f \in DOMAIN b \ {"src"} : b[f] = <<>>

NoEmptyBlock(d) == \A i \in 1..Len(d) : \A j \in 1..Len(d[i].v) : ~AllEmpty(d[i].v[j])

C5_Original == NoEmptyBlock(lad_by_internal) /\ NoEmptyBlock(sessions_by_id)

(***************************************************************************)
(* C5 (amended).  In the Smartlions explicit-link join no                  *)
(* location_and_date list, in the grouping or in the written output,       *)
(* contains a block whose fields are all empty strings.                    *)
(***************************************************************************)
C5_SmartlionsNoEmptyBlock ==
    /\ NoEmptyBlock(lad_by_internal)
    /\ \A i \in 1..Len(output) :
          \A j \in 1..Len(output[i].location_and_date) :
             ~AllEmpty(output[i].location_and_date[j])

\* a written Smartlions run with a Session Record without Location/Date data
\* linked to a fetched course that has an internal_id
C5_Witness ==
    /\ Written
    /\ \E sr \in SessionRecordSet : ~HasLadField(sr) /\ Resolvable(sr) # {}

(***************************************************************************)
(* C6.  A non-success response to any page request of either fetch aborts  *)
(* the run and the output file is never written in that run: the file is   *)
(* written only after both fetches have completed successfully.            *)
(***************************************************************************)
LastPage(table) == IF table = <<>> THEN 0 ELSE (Len(table) - 1) \div PageSize

\* the last page of the table has been requested
FetchCompleted(name, table) ==
    \E i \in 1..Len(requests) : requests[i] = [table |-> name, offset |-> LastPage(table)]

C6_NoWriteAfterFailure ==
    /\ error = "HTTPError" => pc = "aborted" /\ file = <<>>
    /\ file # <<>> =>
          /\ error = "none"
          /\ FetchCompleted("courses", srv_courses)
          /\ FetchCompleted("sessions", srv_sessions)
          /\ course_records = srv_courses
          /\ session_records = srv_sessions

\* a Smartlions run aborted by a failed request of the Sessions fetch, after
\* the Courses fetch had completed
C6_Witness ==
    /\ partner = "smartlions"
    /\ error = "HTTPError"
    /\ pc = "aborted"
    /\ file = <<>>
    /\ requests # <<>>
    /\ requests[Len(requests)].table = "sessions"

(***************************************************************************)
(* C7.  A Course Record with an empty internal_id (absent, null or blank)  *)
(* does not abort the Smartlions run: it yields exactly one Output Record, *)
(* placed before every Output Record with a non-empty internal_id, with    *)
(* empty location_and_date and sessions lists whatever Session Records     *)
(* exist.                                                                  *)
(***************************************************************************)
C7_EmptyIdCourse ==
    /\ (partner = "smartlions" /\ pc = "aborted") => error = "HTTPError"
    /\ Written =>
          /\ Len(file[1]) = Len(course_records)
          /\ \A c \in 1..Len(course_records) :
                norm_str(course_records[c].internal_id) = <<>> =>
                   /\ Cardinality({i \in 1..Len(file[1]) :
                                      file[1][i].rec = course_records[c].id}) = 1
                   /\ \A i, j \in 1..Len(file[1]) :
                         (file[1][i].rec = course_records[c].id
                            /\ file[1][j].internal_id # <<>>) => i < j
                   /\ ObjOf(file[1], course_records[c].id).location_and_date = <<>>
                   /\ ObjOf(file[1], course_records[c].id).sessions = <<>>

\* a written run in which a course without internal_id was fetched after one
\* with an internal_id, and a Session Record with data links to it
C7_Witness ==
    /\ Written
    /\ Len(course_records) = 2
    /\ norm_str(course_records[1].internal_id) # <<>>
    /\ norm_str(course_records[2].internal_id) = <<>>
    /\ file[1][1].rec = course_records[2].id
    /\ \E sr \in SessionRecordSet : HasLadField(sr) /\ course_records[2].id \in LinkedIds(sr)

(***************************************************************************)
(* C9 (as claimed).  UTM tagging: a URL that already has a query is        *)
(* returned unchanged; for a non-empty URL without a query the result's    *)
(* query is exactly the partner's UTM string and its scheme, host, path,   *)
(* params and fragment are those of the input; the empty input yields the  *)
(* empty string.                                                           *)
(***************************************************************************)
UtmOf(p) == IF p = "smartlions" THEN UTM_QUERY_SMARTLIONS ELSE UTM_QUERY_JOBAT

SameButQuery(a, b) ==
    /\ a.scheme = b.scheme
    /\ a.netloc = b.netloc
    /\ a.path = b.path
    /\ a.params = b.params
    /\ a.fragment = b.fragment

C9_Claim ==
    tagged # <<>> =>
        /\ urlparse(url).query # <<>> => tagged[1] = url
        /\ (url # <<>> /\ urlparse(url).query = <<>>) =>
              /\ urlparse(tagged[1]).query = UtmOf(partner)
              /\ SameButQuery(urlparse(url), urlparse(tagged[1]))
        /\ url = <<>> => tagged[1] = <<>>

(***************************************************************************)
(* C10 (as claimed).  The Session Record with date_start "2024-03-01",     *)
(* hours "09:00-17:00" and no other field set (recS1), joined to the       *)
(* course with internal_id "C1" (recB) by the Smartlions pipeline, yields  *)
(* two Session Blocks in that course's sessions list, with sessionId       *)
(* "C1-start-2024-03-01" and startTime "09:00".                            *)
(***************************************************************************)
S_C1_start == <<"C", "1", "-", "s", "t", "a", "r", "t", "-", "2", "0", "2", "4", "-", "0", "3", "-", "0", "1">>

S_0900 == <<"0", "9", ":", "0", "0">>

C10_Claim ==
    (/\ Written
     /\ Len(session_records) = 1
     /\ session_records[1].id = "recS1"
     /\ Fetched("recB")) =>
        LET ss == ObjOf(file[1], "recB").sessions
        IN /\ Len(ss) = 2
           /\ \E i \in 1..Len(ss) :
                 ss[i].sessionId = S_C1_start /\ ss[i].startTime = S_0900

(***************************************************************************)
(* C11.  airtable_fetch_all issues its page requests one after another:    *)
(* the first request carries no token and every later request carries the  *)
(* token returned by the previous response.  While the loop runs, records  *)
(* is the concatenation of the pages received so far.  When every response *)
(* is successful the loop ends (the server returns a page without a token) *)
(* and returns exactly the concatenation of the pages in the order         *)
(* received, every page of the table requested once, none skipped.         *)
(***************************************************************************)
ServerTable(name) == IF name = "courses" THEN srv_courses ELSE srv_sessions

ForTable(name, r) == r.table = name

\* the requests of the fetch of table name, in the order issued
Reqs(name) == SelectSeq(requests, LAMBDA r : ForTable(name, r))

\* the last request of the run got a non-success response
LastFailed(name) ==
    error = "HTTPError" /\ requests # <<>> /\ requests[Len(requests)].table = name

\* the requests of table name that got a successful response
Answered(name) ==
    LET q == Reqs(name)
    IN IF LastFailed(name) THEN SubSeq(q, 1, Len(q) - 1) ELSE q

RECURSIVE ConcatPages(_, _)
ConcatPages(table, q) ==
    IF q = <<>> THEN <<>>
    ELSE ConcatPages(table, SubSeq(q, 1, Len(q) - 1)) \o PageRecords(table, q[Len(q)].offset)

\* the fetch of table name has returned
Returned(name) ==
    LET a == Answered(name)
    IN a # <<>> /\ NextOffset(ServerTable(name), a[Len(a)].offset) = 0

ReturnedRecords(name) == IF name = "courses" THEN course_records ELSE session_records

TokenChain(name) ==
    LET q == Reqs(name)
    IN \A i \in 1..Len(q) :
          /\ i = 1 => q[i].offset = 0
          /\ i > 1 => /\ NextOffset(ServerTable(name), q[i - 1].offset) # 0
                      /\ q[i].offset = NextOffset(ServerTable(name), q[i - 1].offset)

\* the fetch at position st of the script has been left without a failed response
LeftFetch(st) ==
    /\ error # "HTTPError"
    /\ CASE st = "sl_fetch_courses" -> partner = "smartlions" /\ pc # "sl_fetch_courses"
         [] st = "sl_fetch_sessions" ->
               partner = "smartlions" /\ pc \notin {"sl_fetch_courses", "sl_lookup", "sl_fetch_sessions"}
         [] st = "jb_fetch_sessions" -> partner = "jobat" /\ pc # "jb_fetch_sessions"
         [] st = "jb_fetch_courses" -> partner = "jobat" /\ pc = "done"

FetchedTable(st) == IF st \in {"sl_fetch_courses", "jb_fetch_courses"} THEN "courses" ELSE "sessions"

PaginationSafe ==
    /\ \A name \in {"courses", "sessions"} :
          /\ TokenChain(name)
          /\ Returned(name) =>
                /\ ReturnedRecords(name) = ConcatPages(ServerTable(name), Answered(name))
                /\ ReturnedRecords(name) = ServerTable(name)
                /\ Len(Answered(name)) = LastPage(ServerTable(name)) + 1
                /\ \A i \in 1..Len(Answered(name)) : Answered(name)[i].offset = i - 1
    /\ pc \in FetchStates =>
          /\ ~Returned(TableName)
          /\ records = ConcatPages(Table, Answered(TableName))
    /\ \A st \in FetchStates : LeftFetch(st) => Returned(FetchedTable(st))

C11_Pagination ==
    /\ []PaginationSafe
    /\ [](pc \in FetchStates => <>(pc \notin FetchStates))

\* a fetch of more than one page has returned with every response successful
C11_Witness ==
    /\ error = "none"
    /\ Returned("sessions")
    /\ Len(Reqs("sessions")) >= 2
    /\ session_records = srv_sessions

====
